---- MODULE Spec2Model ----
(***************************************************************************)
(* Model of the first-fit contiguous memory simulator of Ejercicio.cpp:    *)
(* class Memoria (vector<Bloque> bloques, int total_memoria) with its      *)
(* operations cargarProceso, liberarProceso and compactarMemoriaFisica.    *)
(* The console messages of each operation are modelled by the variable     *)
(* salida, which names the message the operation printed.                  *)
(***************************************************************************)
EXTENDS Integers, Sequences, FiniteSets

\* ---------------------------------------------------------------- constants
LIBRE_BLOCK_NAME == "Libre"

DEFAULT_TOTAL_MEMORY == 64

\* ------------------------------------------------------------------- bounds
\* largest positive size handed to the constructor
MaxCap == 4

\* largest process size requested in a region of at most MaxCap units
MaxTam == 3

\* process names typed by the user (besides the reserved name)
Procesos == {"A", "B"}

NombreInputs == Procesos \cup {LIBRE_BLOCK_NAME}

\* sizes handed to the constructor by main(), which asks again until the
\* size is positive
SizeInputs == 1..MaxCap

\* sizes the constructor replaces by DEFAULT_TOTAL_MEMORY
SizeInputsInvalidos == {-1, 0}

\* process sizes requested: invalid ones, and valid ones on the scale of the
\* region (tens of units in the 64 unit default region)
TamanoInputs(total) ==
    {-1, 0} \cup (IF total > MaxCap THEN {10, 20} ELSE 1..MaxTam)

\* ------------------------------------------------------------------ helpers
Bloque(nombre, inicio, tamano) ==
    [nombre |-> nombre, inicio |-> inicio, tamano |-> tamano]

\* std::find_if with the first-fit predicate: index of the first free block
\* of at least tamano units, Len(bs) + 1 for end()
RECURSIVE BuscarLibreDesde(_, _, _)
BuscarLibreDesde(bs, tamano, i) ==
    IF i > Len(bs) THEN i
    ELSE IF bs[i].nombre = LIBRE_BLOCK_NAME /\ bs[i].tamano >= tamano THEN i
    ELSE BuscarLibreDesde(bs, tamano, i + 1)

\* mutation: the size test of the predicate is dropped
BuscarLibreSinTamano(bs, tamano) ==
    IF \E i \in 1..Len(bs) : bs[i].nombre = LIBRE_BLOCK_NAME
    THEN CHOOSE i \in 1..Len(bs) :
            /\ bs[i].nombre = LIBRE_BLOCK_NAME
            /\ \A j \in 1..(i - 1) : bs[j].nombre # LIBRE_BLOCK_NAME
    ELSE Len(bs) + 1

\* mutation: the scan keeps the last fitting block instead of the first
BuscarLibreUltimo(bs, tamano) ==
    LET fits == {i \in 1..Len(bs) :
                    bs[i].nombre = LIBRE_BLOCK_NAME /\ bs[i].tamano >= tamano}
    IN  IF fits = {} THEN Len(bs) + 1
        ELSE CHOOSE i \in fits : \A j \in fits : j <= i

BuscarLibre(bs, tamano) == BuscarLibreDesde(bs, tamano, 1)

\* std::find_if with the name predicate of liberarProceso
RECURSIVE BuscarNombreDesde(_, _, _)
BuscarNombreDesde(bs, nombre, i) ==
    IF i > Len(bs) THEN i
    ELSE IF bs[i].nombre = nombre THEN i
    ELSE BuscarNombreDesde(bs, nombre, i + 1)

\* mutation: the scan keeps the last block of that name instead of the first
BuscarNombreUltimo(bs, nombre) ==
    LET son == {i \in 1..Len(bs) : bs[i].nombre = nombre}
    IN  IF son = {} THEN Len(bs) + 1
        ELSE CHOOSE i \in son : \A j \in son : j <= i

\* mutation: the predicate compares with != instead of ==
BuscarNombreDistinto(bs, nombre) ==
    IF \E i \in 1..Len(bs) : bs[i].nombre # nombre
    THEN CHOOSE i \in 1..Len(bs) :
            /\ bs[i].nombre # nombre
            /\ \A j \in 1..(i - 1) : bs[j].nombre = nombre
    ELSE Len(bs) + 1

BuscarNombre(bs, nombre) == BuscarNombreDesde(bs, nombre, 1)

\* mutation: only negative sizes are refused
TamanoNegativo(tamano) == tamano < 0

TamanoInvalido(tamano) == tamano <= 0

\* mutation: the reserved name is not checked
NombreNuncaReservado(nombre) == FALSE

NombreReservado(nombre) == nombre = LIBRE_BLOCK_NAME

\* mutation: the free remainder keeps its old start
DividirSinAvanzar(bs, it, nombre, tamano) ==
    SubSeq(bs, 1, it - 1)
        \o << Bloque(nombre, bs[it].inicio, tamano),
              Bloque(bs[it].nombre, bs[it].inicio, bs[it].tamano - tamano) >>
        \o SubSeq(bs, it + 1, Len(bs))

\* mutation: the process takes the end of the free block, and is inserted
\* after the free remainder
DividirAlFinal(bs, it, nombre, tamano) ==
    SubSeq(bs, 1, it - 1)
        \o << Bloque(bs[it].nombre, bs[it].inicio, bs[it].tamano - tamano),
              Bloque(nombre, bs[it].inicio + bs[it].tamano - tamano,
                     tamano) >>
        \o SubSeq(bs, it + 1, Len(bs))

\* split of the free block at index it: the process block is inserted before
\* the free remainder, which starts tamano later and is tamano shorter
Dividir(bs, it, nombre, tamano) ==
    SubSeq(bs, 1, it - 1)
        \o << Bloque(nombre, bs[it].inicio, tamano),
              Bloque(bs[it].nombre, bs[it].inicio + tamano,
                     bs[it].tamano - tamano) >>
        \o SubSeq(bs, it + 1, Len(bs))

\* the loop of compactarEspaciosLibresAdyacentes from index i on, fus being
\* bloques_fusionados
RECURSIVE FusionarDesde(_, _, _)
FusionarDesde(bs, fus, i) ==
    IF i > Len(bs) THEN fus
    ELSE IF fus[Len(fus)].nombre = LIBRE_BLOCK_NAME
            /\ bs[i].nombre = LIBRE_BLOCK_NAME
         THEN FusionarDesde(bs,
                  [fus EXCEPT ![Len(fus)].tamano = @ + bs[i].tamano], i + 1)
         ELSE FusionarDesde(bs, Append(fus, bs[i]), i + 1)

\* mutation: a free block that follows a free block is dropped without
\* adding its size to the block before it
FusionarSinSumar(bs) ==
    LET cabezas == {i \in 1..Len(bs) :
                       \/ i = 1
                       \/ bs[i].nombre # LIBRE_BLOCK_NAME
                       \/ bs[i - 1].nombre # LIBRE_BLOCK_NAME}
    IN  [k \in 1..Cardinality(cabezas) |->
            bs[CHOOSE i \in cabezas :
                  Cardinality({j \in cabezas : j <= i}) = k]]

\* mutation: the merge pass is skipped
SinFusionar(bs) == bs

compactarEspaciosLibresAdyacentes(bs) ==
    IF bs = << >> THEN bs ELSE FusionarDesde(bs, << bs[1] >>, 2)

\* the first loop of compactarMemoriaFisica from index i on; st holds
\* bloques_compactados, puntero_actual and espacio_libre_total
RECURSIVE MoverDesde(_, _, _)
MoverDesde(bs, st, i) ==
    IF i > Len(bs) THEN st
    ELSE IF bs[i].nombre # LIBRE_BLOCK_NAME
         THEN MoverDesde(bs,
                  [st EXCEPT
                     !.compactados = Append(@, Bloque(bs[i].nombre,
                                                      st.puntero,
                                                      bs[i].tamano)),
                     !.puntero = @ + bs[i].tamano],
                  i + 1)
         ELSE MoverDesde(bs, [st EXCEPT !.libre = @ + bs[i].tamano], i + 1)

\* mutation: the blocks are not moved, only adjacent free blocks are merged
CompactarSoloAdyacentes(bs, total) == compactarEspaciosLibresAdyacentes(bs)

\* bs read from the last block to the first
Invertida(bs) == [i \in 1..Len(bs) |-> bs[Len(bs) + 1 - i]]

\* mutation: the loop walks bloques from the back, so the processes are
\* packed in the opposite order
CompactarInvertido(bs, total) ==
    LET st == MoverDesde(Invertida(bs), [compactados |-> << >>,
                                         puntero |-> 0, libre |-> 0], 1)
    IN  IF st.puntero < total
        THEN Append(st.compactados,
                    Bloque(LIBRE_BLOCK_NAME, st.puntero, total - st.puntero))
        ELSE IF st.compactados = << >> /\ total > 0
        THEN Append(st.compactados, Bloque(LIBRE_BLOCK_NAME, 0, total))
        ELSE st.compactados

\* mutation: the trailing free block is appended when puntero_actual <=
\* total_memoria, so a full region gets an empty free block
CompactarConLibreVacio(bs, total) ==
    LET st == MoverDesde(bs, [compactados |-> << >>, puntero |-> 0,
                              libre |-> 0], 1)
    IN  IF st.puntero <= total
        THEN Append(st.compactados,
                    Bloque(LIBRE_BLOCK_NAME, st.puntero, total - st.puntero))
        ELSE st.compactados

\* the new value of bloques after compactarMemoriaFisica
CompactarBloques(bs, total) ==
    LET st == MoverDesde(bs, [compactados |-> << >>, puntero |-> 0,
                              libre |-> 0], 1)
    IN  IF st.puntero < total
        THEN Append(st.compactados,
                    Bloque(LIBRE_BLOCK_NAME, st.puntero, total - st.puntero))
        ELSE IF st.compactados = << >> /\ total > 0
        THEN Append(st.compactados, Bloque(LIBRE_BLOCK_NAME, 0, total))
        ELSE st.compactados

\* cargarProceso: the new value of bloques and the message printed
CargarResultado(bs, nombre, tamano) ==
    IF TamanoInvalido(tamano)
    THEN [bloques |-> bs, salida |-> "InvalidSize"]
    ELSE IF NombreReservado(nombre)
    THEN [bloques |-> bs, salida |-> "ReservedName"]
    ELSE LET it == BuscarLibre(bs, tamano)
         IN  IF it <= Len(bs)
             THEN [bloques |->
                      IF bs[it].tamano = tamano
                      THEN [bs EXCEPT ![it].nombre = nombre]
                      ELSE Dividir(bs, it, nombre, tamano),
                   salida |-> "Cargado"]
             ELSE [bloques |-> bs, salida |-> "InsufficientSpace"]

\* liberarProceso: the new value of bloques and the message printed
LiberarResultado(bs, nombre) ==
    IF NombreReservado(nombre)
    THEN [bloques |-> bs, salida |-> "ReservedName"]
    ELSE LET it == BuscarNombre(bs, nombre)
         IN  IF it <= Len(bs)
             THEN [bloques |-> compactarEspaciosLibresAdyacentes(
                                  [bs EXCEPT ![it].nombre = LIBRE_BLOCK_NAME]),
                   salida |-> "Liberado"]
             ELSE [bloques |-> bs, salida |-> "NotFound"]

\* calcularFragmentacionExterna: the sum of the free blocks
RECURSIVE SumaLibreDesde(_, _)
SumaLibreDesde(bs, i) ==
    IF i > Len(bs) THEN 0
    ELSE (IF bs[i].nombre = LIBRE_BLOCK_NAME THEN bs[i].tamano ELSE 0)
         + SumaLibreDesde(bs, i + 1)

TotalFree(bs) == SumaLibreDesde(bs, 1)

\* calcularFragmentacionExterna: the number of free blocks
FreeBlockCount(bs) ==
    Cardinality({i \in 1..Len(bs) :
                    bs[i].nombre = LIBRE_BLOCK_NAME /\ bs[i].tamano > 0})

\* -------------------------------------------------------------------- state
\* bloques, total_memoria: the fields of Memoria
\* op: the last operation called; nombre, tamano: its arguments ("" and 0
\* when it has none); salida: the message it printed; previo: bloques when
\* it was called
\* ant: the call before it: operation, nombre, message, and the free total
\* and free block count when it was called
VARIABLES bloques, total_memoria, op, nombre, tamano, salida, previo, ant

vars == << bloques, total_memoria, op, nombre, tamano, salida, previo, ant >>

SinLlamada == [op |-> "", nombre |-> "", salida |-> "", libre |-> 0,
               nlibres |-> 0]

Llamada == [op |-> op, nombre |-> nombre, salida |-> salida,
            libre |-> TotalFree(previo), nlibres |-> FreeBlockCount(previo)]

\* mutation: a non-positive size is not replaced by the default
ConstructSinDefecto(size) ==
    /\ total_memoria = size
    /\ bloques = << Bloque(LIBRE_BLOCK_NAME, 0, total_memoria) >>
    /\ op = "Memoria"
    /\ nombre = ""
    /\ tamano = size
    /\ salida = (IF size <= 0 THEN "ConfigWarning" ELSE "")
    /\ previo = << >>
    /\ ant = SinLlamada

\* Memoria::Memoria(size)
Construct(size) ==
    /\ total_memoria = (IF size <= 0 THEN DEFAULT_TOTAL_MEMORY ELSE size)
    /\ bloques = << Bloque(LIBRE_BLOCK_NAME, 0, total_memoria) >>
    /\ op = "Memoria"
    /\ nombre = ""
    /\ tamano = size
    /\ salida = (IF size <= 0 THEN "ConfigWarning" ELSE "")
    /\ previo = << >>
    /\ ant = SinLlamada

Init == \E size \in SizeInputs : Construct(size)

cargarProceso ==
    \E n \in NombreInputs : \E t \in TamanoInputs(total_memoria) :
        LET r == CargarResultado(bloques, n, t)
        IN  /\ bloques' = r.bloques
            /\ salida' = r.salida
            /\ op' = "cargarProceso"
            /\ nombre' = n
            /\ tamano' = t
            /\ previo' = bloques
            /\ ant' = Llamada
            /\ UNCHANGED total_memoria

liberarProceso ==
    \E n \in NombreInputs :
        LET r == LiberarResultado(bloques, n)
        IN  /\ bloques' = r.bloques
            /\ salida' = r.salida
            /\ op' = "liberarProceso"
            /\ nombre' = n
            /\ tamano' = 0
            /\ previo' = bloques
            /\ ant' = Llamada
            /\ UNCHANGED total_memoria

compactarMemoriaFisica ==
    /\ bloques' = CompactarBloques(bloques, total_memoria)
    /\ salida' = "Compactada"
    /\ op' = "compactarMemoriaFisica"
    /\ nombre' = ""
    /\ tamano' = 0
    /\ previo' = bloques
    /\ ant' = Llamada
    /\ UNCHANGED total_memoria

Next == cargarProceso \/ liberarProceso \/ compactarMemoriaFisica

Spec == Init /\ [][Next]_vars

\* the region built from a non-positive size
InitDefault == \E size \in SizeInputsInvalidos : Construct(size)

SpecDefault == InitDefault /\ [][Next]_vars

\* every size the constructor handles: positive ones, among them the default
\* itself, and non-positive ones
InitConstruct ==
    \E size \in SizeInputs \cup SizeInputsInvalidos \cup {DEFAULT_TOTAL_MEMORY} :
        Construct(size)

SpecConstruct == InitConstruct /\ [][Next]_vars

\* every sequence of blocks that covers [inicio, total) without gaps, free
\* blocks next to free blocks included
RECURSIVE Contiguas(_, _)
Contiguas(inicio, total) ==
    IF inicio >= total THEN {<< >>}
    ELSE UNION {
            {<< Bloque(n, inicio, t) >> \o resto :
                resto \in Contiguas(inicio + t, total)} :
            n \in NombreInputs, t \in 1..(total - inicio)}

\* compactarEspaciosLibresAdyacentes is private: to exercise it on block
\* lists that liberarProceso never hands to it, the region starts with any
\* contiguous block list, the empty one included
InitFusion ==
    \E total \in 0..MaxCap : \E bs \in Contiguas(0, total) :
        /\ total_memoria = total
        /\ bloques = bs
        /\ op = "bloques"
        /\ nombre = ""
        /\ tamano = 0
        /\ salida = ""
        /\ previo = << >>
        /\ ant = SinLlamada

\* one call of compactarEspaciosLibresAdyacentes
FusionarAdyacentes ==
    /\ bloques' = compactarEspaciosLibresAdyacentes(bloques)
    /\ op' = "compactarEspaciosLibresAdyacentes"
    /\ nombre' = ""
    /\ tamano' = 0
    /\ salida' = ""
    /\ previo' = bloques
    /\ ant' = Llamada
    /\ UNCHANGED total_memoria

NextFusion == FusionarAdyacentes

SpecFusion == InitFusion /\ [][NextFusion]_vars

\* ------------------------------------------------------------------- claims
Libre(b) == b.nombre = LIBRE_BLOCK_NAME

\* indices of the free blocks of bs that can hold t units
Caben(bs, t) == {i \in 1..Len(bs) : Libre(bs[i]) /\ bs[i].tamano >= t}

SolicitudValida ==
    op = "cargarProceso" /\ tamano > 0 /\ nombre # LIBRE_BLOCK_NAME

\* C1: in every reachable state the blocks partition [0, total_memoria): the
\* first block starts at 0, each block starts where the one before it ends,
\* the last block ends at total_memoria, and every block has a positive size.
C1_Particion ==
    /\ Len(bloques) >= 1
    /\ bloques[1].inicio = 0
    /\ \A i \in 1..(Len(bloques) - 1) :
          bloques[i + 1].inicio = bloques[i].inicio + bloques[i].tamano
    /\ bloques[Len(bloques)].inicio + bloques[Len(bloques)].tamano
          = total_memoria
    /\ \A i \in 1..Len(bloques) : bloques[i].tamano > 0

\* a split happened in the middle of the region and left four blocks or more
C1_Witness ==
    /\ op = "cargarProceso"
    /\ salida = "Cargado"
    /\ Len(bloques) = Len(previo) + 1
    /\ Len(bloques) >= 4
    /\ ~ Libre(bloques[Len(bloques)])

\* C2: after every operation no two adjacent blocks are both free.
C2_SinLibresAdyacentes ==
    \A i \in 1..(Len(bloques) - 1) :
        ~ (Libre(bloques[i]) /\ Libre(bloques[i + 1]))

\* a release merged the freed block with a free neighbour on each side
C2_Witness ==
    /\ op = "liberarProceso"
    /\ salida = "Liberado"
    /\ Len(bloques) + 2 = Len(previo)

\* C3: in every reachable state at most one block carries a given process
\* name.
C3_PropietarioUnico ==
    \A i, j \in 1..Len(bloques) :
        (i # j /\ ~ Libre(bloques[i]))
            => bloques[i].nombre # bloques[j].nombre

\* C4: a valid request is served first-fit: it succeeds exactly when some
\* free block has at least tamano units, and on success the block of the
\* process has tamano units and starts where the lowest free block of at
\* least tamano units started.
C4_PrimerAjuste ==
    SolicitudValida =>
        /\ (salida = "Cargado") <=> (Caben(previo, tamano) # {})
        /\ (salida = "Cargado") =>
              \E i \in Caben(previo, tamano) :
                  /\ \A j \in Caben(previo, tamano) :
                        previo[i].inicio <= previo[j].inicio
                  /\ \E k \in 1..Len(bloques) :
                        bloques[k] = Bloque(nombre, previo[i].inicio, tamano)

\* the request was placed in a larger free block although a later free
\* block fitted exactly
C4_Witness ==
    /\ SolicitudValida
    /\ salida = "Cargado"
    /\ \E i, j \in Caben(previo, tamano) :
          /\ i < j
          /\ previo[i].tamano > tamano
          /\ previo[j].tamano = tamano
          /\ \E k \in 1..Len(bloques) :
                bloques[k] = Bloque(nombre, previo[i].inicio, tamano)

\* C5: a valid request made when no free block has at least tamano units
\* prints the insufficient space message and leaves bloques unchanged, also
\* when the free blocks together have tamano units or more.
C5_SinEspacio ==
    (SolicitudValida /\ Caben(previo, tamano) = {})
        => (salida = "InsufficientSpace" /\ bloques = previo)

\* the request failed although the free total was large enough
C5_Witness ==
    /\ SolicitudValida
    /\ salida = "InsufficientSpace"
    /\ TotalFree(previo) >= tamano
    /\ bloques = previo

\* C6: releasing a process name that labels no block prints the not found
\* message and leaves bloques unchanged.
C6_NoEncontrado ==
    (/\ op = "liberarProceso"
     /\ nombre # LIBRE_BLOCK_NAME
     /\ \A i \in 1..Len(previo) : previo[i].nombre # nombre)
        => (salida = "NotFound" /\ bloques = previo)

\* a release of an absent name in a region that holds another process
C6_Witness ==
    /\ op = "liberarProceso"
    /\ salida = "NotFound"
    /\ \E i \in 1..Len(previo) : ~ Libre(previo[i])
    /\ bloques = previo

\* C7: a request of tamano <= 0 prints the invalid size message, whatever
\* the name, and leaves bloques unchanged.
C7_TamanoInvalido ==
    (op = "cargarProceso" /\ tamano <= 0)
        => (salida = "InvalidSize" /\ bloques = previo)

\* a request of zero units was refused while a free block was available
C7_Witness ==
    /\ op = "cargarProceso"
    /\ tamano = 0
    /\ nombre \in Procesos
    /\ salida = "InvalidSize"
    /\ FreeBlockCount(previo) >= 1

\* C8: the reserved name is always refused: a request of tamano > 0 for it
\* and a release of it print the reserved name message and leave bloques
\* unchanged.
C8_NombreReservado ==
    (\/ (op = "cargarProceso" /\ nombre = LIBRE_BLOCK_NAME /\ tamano > 0)
     \/ (op = "liberarProceso" /\ nombre = LIBRE_BLOCK_NAME))
        => (salida = "ReservedName" /\ bloques = previo)

\* a request for the reserved name and then a release of it were both
\* refused in a region with free and occupied blocks
C8_Witness ==
    /\ op = "liberarProceso"
    /\ nombre = LIBRE_BLOCK_NAME
    /\ salida = "ReservedName"
    /\ ant.op = "cargarProceso"
    /\ ant.nombre = LIBRE_BLOCK_NAME
    /\ ant.salida = "ReservedName"
    /\ FreeBlockCount(bloques) >= 1
    /\ \E i \in 1..Len(bloques) : ~ Libre(bloques[i])

\* a successful release of the name that the call before it loaded
CargarLuegoLiberar ==
    /\ op = "liberarProceso"
    /\ salida = "Liberado"
    /\ ant.op = "cargarProceso"
    /\ ant.salida = "Cargado"
    /\ ant.nombre = nombre

\* C9: a successful load immediately followed by the release of the same
\* name restores the free total and the number of free blocks to their
\* values before the load.
C9_CargarLiberar ==
    CargarLuegoLiberar =>
        /\ TotalFree(bloques) = ant.libre
        /\ FreeBlockCount(bloques) = ant.nlibres

\* C10 as stated: the number of free blocks is at most 1 right after any
\* successful release and right after any compaction.
C10_Original ==
    (\/ (op = "liberarProceso" /\ salida = "Liberado")
     \/ op = "compactarMemoriaFisica")
        => FreeBlockCount(bloques) <= 1

\* C10 as amended: the number of free blocks is at most 1 right after any
\* compaction; right after a successful release no two adjacent blocks are
\* free, and the number of free blocks may exceed 1.
C10_Amended ==
    /\ op = "compactarMemoriaFisica" => FreeBlockCount(bloques) <= 1
    /\ (op = "liberarProceso" /\ salida = "Liberado") =>
          \A i \in 1..(Len(bloques) - 1) :
              Libre(bloques[i]) => ~ Libre(bloques[i + 1])

\* a compaction gathered several separate free blocks into one
C10_Witness ==
    /\ op = "compactarMemoriaFisica"
    /\ FreeBlockCount(previo) >= 2
    /\ FreeBlockCount(bloques) = 1


\* the occupied blocks of bs, in order
Ocupados(bs) == SelectSeq(bs, LAMBDA b : ~ Libre(b))

\* the owner and size of each block of bs, in order
NombreYTamano(bs) ==
    [i \in 1..Len(bs) |-> << bs[i].nombre, bs[i].tamano >>]

\* the sum of the sizes of bs[1..n]
RECURSIVE SumaTamanos(_, _)
SumaTamanos(bs, n) ==
    IF n = 0 THEN 0 ELSE bs[n].tamano + SumaTamanos(bs, n - 1)

\* C11: compaction is stable and packing: the owners and sizes of the
\* occupied blocks, in offset order, are the same before and after; the
\* first occupied block starts at 0 and each occupied block starts where
\* the occupied block before it ends.
C11_CompactarEstable ==
    op = "compactarMemoriaFisica" =>
        LET oc == Ocupados(bloques)
        IN  /\ NombreYTamano(oc) = NombreYTamano(Ocupados(previo))
            /\ \A i \in 1..Len(oc) :
                  oc[i].inicio = (IF i = 1 THEN 0
                                  ELSE oc[i - 1].inicio + oc[i - 1].tamano)
            /\ \A i \in 1..Len(oc) : bloques[i] = oc[i]

\* a compaction moved two different processes that were separated from the
\* start and from each other by free blocks
C11_Witness ==
    /\ op = "compactarMemoriaFisica"
    /\ Len(previo) >= 4
    /\ Libre(previo[1])
    /\ Libre(previo[3])
    /\ ~ Libre(previo[2])
    /\ ~ Libre(previo[4])
    /\ previo[2].nombre # previo[4].nombre
    /\ bloques[1].nombre = previo[2].nombre
    /\ bloques[2].nombre = previo[4].nombre

\* C12: after a compaction there is at most one free block; if there is one
\* it is the last block and covers [sum of the occupied sizes,
\* total_memoria); if no block was occupied the result is the single free
\* block covering the region; if the occupied sizes sum to total_memoria
\* there is no free block.
C12_UnLibreAlFinal ==
    op = "compactarMemoriaFisica" =>
        LET oc == Ocupados(previo)
            suma == SumaTamanos(oc, Len(oc))
        IN  /\ FreeBlockCount(bloques) <= 1
            /\ \A i \in 1..Len(bloques) :
                  Libre(bloques[i]) =>
                      /\ i = Len(bloques)
                      /\ bloques[i].inicio = suma
                      /\ bloques[i].inicio + bloques[i].tamano
                            = total_memoria
            /\ oc = << >> =>
                  bloques = << Bloque(LIBRE_BLOCK_NAME, 0, total_memoria) >>
            /\ suma = total_memoria =>
                  \A i \in 1..Len(bloques) : ~ Libre(bloques[i])

\* a compaction gathered two or more separate free blocks, the first of
\* them at offset 0, into one free block behind the processes
C12_Witness ==
    /\ op = "compactarMemoriaFisica"
    /\ Len(previo) >= 3
    /\ Libre(previo[1])
    /\ FreeBlockCount(previo) >= 2
    /\ Libre(bloques[Len(bloques)])
    /\ bloques[Len(bloques)].tamano = TotalFree(previo)
    /\ Len(bloques) >= 2

\* C13: compaction is idempotent: a compaction made right after a
\* compaction leaves bloques as the first one left it.
C13_CompactarIdempotente ==
    (op = "compactarMemoriaFisica" /\ ant.op = "compactarMemoriaFisica")
        => bloques = previo

\* two compactions in a row, the first of which moved two processes forward
\* and merged two free blocks
C13_Witness ==
    /\ op = "compactarMemoriaFisica"
    /\ ant.op = "compactarMemoriaFisica"
    /\ ant.nlibres >= 2
    /\ Len(Ocupados(bloques)) >= 2
    /\ bloques[1].nombre # bloques[2].nombre


\* C14 as stated: a valid request for a name that already labels a block is
\* refused as a duplicate and leaves bloques unchanged.
C14_DuplicadoRechazado ==
    (/\ SolicitudValida
     /\ \E i \in 1..Len(previo) : previo[i].nombre = nombre)
        => (salida = "DuplicateOwner" /\ bloques = previo)

\* the least element of a non-empty set of indices
Menor(S) == CHOOSE i \in S : \A j \in S : i <= j

\* C17: a successful load changes only the free block it selects. On an
\* exact fit the number of blocks is unchanged and only the owner of that
\* block changes; on a partial fit the block of the process is inserted right
\* before the free remainder, which starts tamano later and is tamano
\* shorter. Every other block keeps its owner, offset, size and relative
\* position, and the free total decreases by exactly tamano.
C17_CargarMarco ==
    (SolicitudValida /\ salida = "Cargado") =>
        LET it == Menor(Caben(previo, tamano))
        IN  /\ TotalFree(bloques) = TotalFree(previo) - tamano
            /\ \A i \in 1..(it - 1) : bloques[i] = previo[i]
            /\ IF previo[it].tamano = tamano
               THEN /\ Len(bloques) = Len(previo)
                    /\ bloques[it] = [previo[it] EXCEPT !.nombre = nombre]
                    /\ \A i \in (it + 1)..Len(previo) :
                          bloques[i] = previo[i]
               ELSE /\ Len(bloques) = Len(previo) + 1
                    /\ bloques[it] =
                          Bloque(nombre, previo[it].inicio, tamano)
                    /\ bloques[it + 1] =
                          Bloque(LIBRE_BLOCK_NAME,
                                 previo[it].inicio + tamano,
                                 previo[it].tamano - tamano)
                    /\ \A i \in (it + 1)..Len(previo) :
                          bloques[i + 1] = previo[i]

\* a partial fit in a free block that had a process on each side
C17_Witness ==
    /\ SolicitudValida
    /\ salida = "Cargado"
    /\ Len(bloques) = Len(previo) + 1
    /\ Menor(Caben(previo, tamano)) > 1
    /\ Menor(Caben(previo, tamano)) < Len(previo)

\* indices of the blocks of bs named n
Llamados(bs, n) == {i \in 1..Len(bs) : bs[i].nombre = n}

\* C18: a successful release frees exactly one block, the lowest block of
\* that name: its range becomes part of one free block that also absorbs
\* the free neighbour on its left and the free neighbour on its right when
\* they exist. Every other block keeps its owner, offset and size, and the
\* free total increases by exactly the size of the released block.
C18_LiberarMarco ==
    (op = "liberarProceso" /\ salida = "Liberado") =>
        LET k == Menor(Llamados(previo, nombre))
            lo == IF k > 1 /\ Libre(previo[k - 1]) THEN k - 1 ELSE k
            hi == IF k < Len(previo) /\ Libre(previo[k + 1])
                  THEN k + 1 ELSE k
        IN  /\ TotalFree(bloques) = TotalFree(previo) + previo[k].tamano
            /\ bloques =
                  SubSeq(previo, 1, lo - 1)
                     \o << Bloque(LIBRE_BLOCK_NAME, previo[lo].inicio,
                                  SumaTamanos(previo, hi)
                                     - SumaTamanos(previo, lo - 1)) >>
                     \o SubSeq(previo, hi + 1, Len(previo))

\* the lower of two blocks of the same name was released and merged with
\* the free block on its left only
C18_Witness ==
    /\ op = "liberarProceso"
    /\ salida = "Liberado"
    /\ Cardinality(Llamados(previo, nombre)) >= 2
    /\ Menor(Llamados(previo, nombre)) > 1
    /\ Libre(previo[Menor(Llamados(previo, nombre)) - 1])
    /\ ~ Libre(previo[Menor(Llamados(previo, nombre)) + 1])
    /\ Len(bloques) + 1 = Len(previo)

\* C19: right after a compaction a valid request of at most the free total
\* always succeeds, and its block starts at total_memoria minus the free
\* total, the end of the packed processes.
C19_CargarTrasCompactar ==
    (/\ SolicitudValida
     /\ ant.op = "compactarMemoriaFisica"
     /\ tamano <= TotalFree(previo))
        => /\ salida = "Cargado"
           /\ \E k \in 1..Len(bloques) :
                 bloques[k] = Bloque(nombre,
                                     total_memoria - TotalFree(previo),
                                     tamano)

\* the request took the whole free total, which before the compaction was
\* spread over two or more free blocks, none of them large enough
C19_Witness ==
    /\ SolicitudValida
    /\ ant.op = "compactarMemoriaFisica"
    /\ ant.nlibres >= 2
    /\ tamano = ant.libre
    /\ tamano = TotalFree(previo)
    /\ salida = "Cargado"


\* the snapshots of the documented scenario
Escenario0 == << Bloque(LIBRE_BLOCK_NAME, 0, 64) >>

Escenario1 == << Bloque("A", 0, 10), Bloque(LIBRE_BLOCK_NAME, 10, 54) >>

Escenario2 ==
    << Bloque("A", 0, 10), Bloque("B", 10, 20),
       Bloque(LIBRE_BLOCK_NAME, 30, 34) >>

Escenario3 ==
    << Bloque(LIBRE_BLOCK_NAME, 0, 10), Bloque("B", 10, 20),
       Bloque(LIBRE_BLOCK_NAME, 30, 34) >>

Escenario4 == << Bloque("B", 0, 20), Bloque(LIBRE_BLOCK_NAME, 20, 44) >>

\* C15: the documented scenario holds step by step: in the region of 64
\* units, loading A with 10 units into the empty region and then B with 20
\* gives [{A,0,10},{B,10,20},{Libre,30,34}]; releasing A then gives
\* [{Libre,0,10},{B,10,20},{Libre,30,34}]; compacting then gives
\* [{B,0,20},{Libre,20,44}].
C15_Escenario ==
    /\ (op = "Memoria" /\ tamano = 64) => bloques = Escenario0
    /\ (/\ op = "cargarProceso" /\ nombre = "A" /\ tamano = 10
        /\ previo = Escenario0)
          => bloques = Escenario1
    /\ (/\ op = "cargarProceso" /\ nombre = "B" /\ tamano = 20
        /\ previo = Escenario1)
          => bloques = Escenario2
    /\ (op = "liberarProceso" /\ nombre = "A" /\ previo = Escenario2)
          => bloques = Escenario3
    /\ (op = "compactarMemoriaFisica" /\ previo = Escenario3)
          => bloques = Escenario4

\* the last step of the scenario: the compaction, made right after the
\* release of A from the snapshot with 34 free units in one block
C15_Witness ==
    /\ op = "compactarMemoriaFisica"
    /\ previo = Escenario3
    /\ bloques = Escenario4
    /\ ant = [op |-> "liberarProceso", nombre |-> "A",
              salida |-> "Liberado", libre |-> 34, nlibres |-> 1]

\* C16: the constructor leaves exactly one free block covering the region,
\* whose size is the size asked for when it is positive and 64 otherwise,
\* and no later operation changes total_memoria.
C16_Capacidad ==
    /\ [](op = "Memoria" =>
            /\ total_memoria = (IF tamano > 0 THEN tamano ELSE 64)
            /\ bloques = << Bloque(LIBRE_BLOCK_NAME, 0, total_memoria) >>)
    /\ [][total_memoria' = total_memoria]_vars

\* a process was loaded into the region that the constructor built from a
\* non-positive size
C16_Witness ==
    /\ op = "cargarProceso"
    /\ salida = "Cargado"
    /\ ant.op = "Memoria"
    /\ ant.salida = "ConfigWarning"
    /\ total_memoria = 64
    /\ bloques[Len(bloques)].inicio + bloques[Len(bloques)].tamano = 64


\* indices of the blocks of bs that start a block of the merged list: the
\* occupied blocks and the first block of each run of free blocks
Cabezas(bs) ==
    {i \in 1..Len(bs) : i = 1 \/ ~ Libre(bs[i]) \/ ~ Libre(bs[i - 1])}

\* the last index of the maximal run of free blocks that starts at i, and i
\* itself for an occupied block
FinDeRacha(bs, i) ==
    IF ~ Libre(bs[i]) THEN i
    ELSE CHOOSE j \in i..Len(bs) :
            /\ \A m \in i..j : Libre(bs[m])
            /\ j = Len(bs) \/ ~ Libre(bs[j + 1])

\* C20: the merge pass replaces each maximal run of adjacent free blocks by
\* one free block with the offset of the first block of the run and the
\* sum of the sizes of the run, keeps the occupied blocks and the order, and
\* a second pass right after the first leaves the list as the first left it.
C20_Fusion ==
    op = "compactarEspaciosLibresAdyacentes" =>
        /\ Len(bloques) = Cardinality(Cabezas(previo))
        /\ \A k \in 1..Len(bloques) :
              LET i == CHOOSE c \in Cabezas(previo) :
                          Cardinality({j \in Cabezas(previo) : j <= c}) = k
              IN  bloques[k] =
                     Bloque(previo[i].nombre, previo[i].inicio,
                            SumaTamanos(previo, FinDeRacha(previo, i))
                               - SumaTamanos(previo, i - 1))
        /\ ant.op = "compactarEspaciosLibresAdyacentes" => bloques = previo

\* the second of two passes in a row, the first of which merged a run of
\* three or more free blocks next to an occupied block
C20_Witness ==
    /\ op = "compactarEspaciosLibresAdyacentes"
    /\ ant.op = "compactarEspaciosLibresAdyacentes"
    /\ ant.nlibres >= 3
    /\ FreeBlockCount(bloques) = 1
    /\ Len(bloques) >= 2

====
